---- MODULE Spec2Model ----
(***************************************************************************)
(* A model of reprompt (src/src/main.rs): the text cleaning pipeline       *)
(* (clean_text and everything it calls) as operators over sequences of     *)
(* Unicode code points, and one run of main over the system clipboard      *)
(* (ClipboardTransaction: snapshot, validate, commit, verify, rollback)    *)
(* as a state machine.                                                     *)
(*                                                                         *)
(* A text is a sequence of code points (a Rust String seen as its chars);  *)
(* byte lengths (str::len) are computed through the UTF-8 encoding.        *)
(***************************************************************************)
EXTENDS Integers, Sequences, FiniteSets, TLC

(***************************************************************************)
(* Code points named in the source.                                        *)
(***************************************************************************)
LF == 10
CR == 13
SPACE == 32
ESC == 27
CSI == 155
SEMICOLON == 59
BOM == 65279
REPLACEMENT == 65533

\* Box-drawing glyphs used by the regular expressions (lines 9-30).
BoxH == 9472        \* U+2500 light horizontal
BoxHHeavy == 9473   \* U+2501 heavy horizontal
BoxV == 9474        \* U+2502 light vertical
BoxVHeavy == 9475   \* U+2503 heavy vertical, of the range of line 158
BoxDR == 9484       \* U+250C corner down-right
BoxDL == 9488       \* U+2510 corner down-left
BoxUR == 9492       \* U+2514 corner up-right
BoxUL == 9496       \* U+2518 corner up-left
BoxHDouble == 9552  \* U+2550 double horizontal
BoxVDouble == 9553  \* U+2551 double vertical
ArcDR == 9581       \* U+256D arc down-right
ArcDL == 9582       \* U+256E arc down-left
ArcUL == 9583       \* U+256F arc up-left
ArcUR == 9584       \* U+2570 arc up-right

(***************************************************************************)
(* Character classes of the Rust standard library, as the source uses them.*)
(* They are exact on the code points the model draws its texts from:       *)
(* U+0000..U+024F, the Windows-1252 table's targets, U+2000..U+259F,       *)
(* U+FEFF and U+FFFD.                                                      *)
(***************************************************************************)
\* char::is_whitespace and the regex class \s: the White_Space property.
IsWhitespace(c) ==
    \/ c \in 9..13
    \/ c \in {32, 133, 160, 5760, 8232, 8233, 8239, 8287, 12288}
    \/ c \in 8192..8202

\* char::is_control: general category Cc.
IsControl(c) == c \in 0..31 \/ c \in 127..159

\* char::is_alphanumeric: Alphabetic or numeric (Nd, Nl, No).
IsAlphanumeric(c) ==
    \/ c \in 48..57
    \/ c \in 65..90
    \/ c \in 97..122
    \/ c \in {170, 181, 186}
    \/ c \in {178, 179, 185, 188, 189, 190}
    \/ c \in 192..214
    \/ c \in 216..246
    \/ c \in 248..591
    \/ c \in 688..705
    \/ c \in 710..721

\* char::is_ascii_punctuation
IsAsciiPunctuation(c) ==
    c \in 33..47 \/ c \in 58..64 \/ c \in 91..96 \/ c \in 123..126

\* is_borderish (lines 153-211): the box-drawing and block ranges (every glyph
\* the match arm names except the intersection sign lies in the first range),
\* and the Latin-1 letters that mis-decoded borders show.
IsBorderish(c) ==
    \/ c \in 9472..9599
    \/ c \in 9600..9631
    \/ c \in {8745, 226, 195, 227, 194, 239, 187, 191}

(***************************************************************************)
(* String helpers of the Rust standard library.                            *)
(***************************************************************************)
RECURSIVE TrimEnd(_)
TrimEnd(s) ==
    IF s # <<>> /\ IsWhitespace(s[Len(s)])
    THEN TrimEnd(SubSeq(s, 1, Len(s) - 1))
    ELSE s

RECURSIVE TrimStart(_)
TrimStart(s) ==
    IF s # <<>> /\ IsWhitespace(s[1]) THEN TrimStart(Tail(s)) ELSE s

Trim(s) == TrimStart(TrimEnd(s))

\* str::trim_start_matches(ch)
RECURSIVE TrimStartMatches(_, _)
TrimStartMatches(s, ch) ==
    IF s # <<>> /\ s[1] = ch THEN TrimStartMatches(Tail(s), ch) ELSE s

\* str::contains(char)
Contains(s, ch) == \E i \in 1..Len(s) : s[i] = ch

\* substring search, str::contains(&str)
ContainsSub(s, t) ==
    \E i \in 1..(Len(s) - Len(t) + 1) : SubSeq(s, i, i + Len(t) - 1) = t

\* str::lines: split after every '\n'; a line that ended in '\n' loses it and
\* then one '\r' before it; a last piece without '\n' is kept as it is.
LinesMap(piece) ==
    IF piece # <<>> /\ piece[Len(piece)] = LF
    THEN LET l == SubSeq(piece, 1, Len(piece) - 1)
         IN  IF l # <<>> /\ l[Len(l)] = CR THEN SubSeq(l, 1, Len(l) - 1) ELSE l
    ELSE piece

RECURSIVE LinesFrom(_, _)
LinesFrom(s, start) ==
    IF start > Len(s) THEN <<>>
    ELSE IF \E i \in start..Len(s) : s[i] = LF
    THEN LET e == CHOOSE i \in start..Len(s) :
                     s[i] = LF /\ \A j \in start..(i - 1) : s[j] # LF
         IN  <<LinesMap(SubSeq(s, start, e))>> \o LinesFrom(s, e + 1)
    ELSE <<SubSeq(s, start, Len(s))>>

Lines(s) == LinesFrom(s, 1)

(***************************************************************************)
(* UTF-8: str::len, str::as_bytes and String::from_utf8.                   *)
(***************************************************************************)
Utf8Encode(c) ==
    IF c < 128 THEN <<c>>
    ELSE IF c < 2048 THEN <<192 + (c \div 64), 128 + (c % 64)>>
    ELSE IF c < 65536
         THEN <<224 + (c \div 4096), 128 + ((c \div 64) % 64), 128 + (c % 64)>>
         ELSE <<240 + (c \div 262144), 128 + ((c \div 4096) % 64),
                128 + ((c \div 64) % 64), 128 + (c % 64)>>

RECURSIVE AsBytes(_)
AsBytes(s) == IF s = <<>> THEN <<>> ELSE Utf8Encode(s[1]) \o AsBytes(Tail(s))

\* str::len: the length in bytes
ByteLen(s) ==
    LET n(k) == Cardinality({i \in 1..Len(s) : Len(Utf8Encode(s[i])) = k})
    IN  n(1) + 2 * n(2) + 3 * n(3) + 4 * n(4)

IsCont(b) == b \in 128..191

\* String::from_utf8: [ok |-> TRUE, text |-> chars] on well-formed UTF-8 (no
\* overlong form, no surrogate, nothing above U+10FFFF), [ok |-> FALSE] otherwise.
RECURSIVE FromUtf8(_)
FromUtf8(b) ==
    IF b = <<>> THEN [ok |-> TRUE, text |-> <<>>]
    ELSE
      LET b1 == b[1]
          n  == Len(b)
          step(len, cp) ==
              LET rest == FromUtf8(SubSeq(b, len + 1, n))
              IN  IF rest.ok THEN [ok |-> TRUE, text |-> <<cp>> \o rest.text]
                  ELSE [ok |-> FALSE, text |-> <<>>]
          bad == [ok |-> FALSE, text |-> <<>>]
      IN
      IF b1 < 128 THEN step(1, b1)
      ELSE IF b1 \in 194..223
      THEN IF n >= 2 /\ IsCont(b[2])
           THEN step(2, (b1 - 192) * 64 + (b[2] - 128)) ELSE bad
      ELSE IF b1 \in 224..239
      THEN IF /\ n >= 3 /\ IsCont(b[2]) /\ IsCont(b[3])
              /\ (b1 = 224 => b[2] >= 160)
              /\ (b1 = 237 => b[2] <= 159)
           THEN step(3, (b1 - 224) * 4096 + (b[2] - 128) * 64 + (b[3] - 128))
           ELSE bad
      ELSE IF b1 \in 240..244
      THEN IF /\ n >= 4 /\ IsCont(b[2]) /\ IsCont(b[3]) /\ IsCont(b[4])
              /\ (b1 = 240 => b[2] >= 144)
              /\ (b1 = 244 => b[2] <= 143)
           THEN step(4, (b1 - 240) * 262144 + (b[2] - 128) * 4096
                        + (b[3] - 128) * 64 + (b[4] - 128))
           ELSE bad
      ELSE bad

(***************************************************************************)
(* Windows-1252 (lines 37-121).                                            *)
(***************************************************************************)
\* WINDOWS_1252_DECODE, entries 0x80..0x9F; every other entry is its index.
Cp1252High ==
    <<8364, 129, 8218, 402, 8222, 8230, 8224, 8225,
      710, 8240, 352, 8249, 338, 141, 381, 143,
      144, 8216, 8217, 8220, 8221, 8226, 8211, 8212,
      732, 8482, 353, 8250, 339, 157, 382, 376>>

WINDOWS_1252_DECODE(b) == IF b \in 128..159 THEN Cp1252High[b - 127] ELSE b

decode_windows_1252(bytes) ==
    [i \in 1..Len(bytes) |-> WINDOWS_1252_DECODE(bytes[i])]

\* The explicit arms of encode_windows_1252's match (lines 84-110), <<char, byte>>.
EncodeArms ==
    { <<8364, 128>>, <<8218, 130>>, <<402, 131>>, <<8222, 132>>, <<8230, 133>>,
      <<8224, 134>>, <<8225, 135>>, <<710, 136>>, <<8240, 137>>, <<352, 138>>,
      <<8249, 139>>, <<338, 140>>, <<381, 142>>, <<8216, 145>>, <<8217, 146>>,
      <<8220, 147>>, <<8221, 148>>, <<8226, 149>>, <<8211, 150>>, <<8212, 151>>,
      <<732, 152>>, <<8482, 153>>, <<353, 154>>, <<8250, 155>>, <<339, 156>>,
      <<382, 158>>, <<376, 159>> }

\* The byte of one char in encode_windows_1252's match, -1 for the `_` arm
\* (lines 83-115).
EncodeChar(ch) ==
    IF \E a \in EncodeArms : a[1] = ch
    THEN (CHOOSE a \in EncodeArms : a[1] = ch)[2]
    ELSE IF ch <= 127 THEN ch
    ELSE IF ch \in 160..255 THEN ch
    ELSE IF ch \in 128..159 THEN ch
    ELSE -1

\* encode_windows_1252: [ok |-> FALSE] is None.
encode_windows_1252(text) ==
    IF \E i \in 1..Len(text) : EncodeChar(text[i]) = -1
    THEN [ok |-> FALSE, bytes |-> <<>>]
    ELSE [ok |-> TRUE, bytes |-> [i \in 1..Len(text) |-> EncodeChar(text[i])]]

\* recover_from_cp1252_mojibake (lines 148-151)
recover_from_cp1252_mojibake(input) ==
    LET encoded == encode_windows_1252(input)
    IN  IF encoded.ok THEN FromUtf8(encoded.bytes) ELSE [ok |-> FALSE, text |-> <<>>]

\* normalize_variants (lines 125-143)
normalize_variants(input) ==
    LET baseline == TrimStartMatches(input, BOM)
        repaired == recover_from_cp1252_mojibake(baseline)
    IN  IF repaired.ok /\ repaired.text # baseline
        THEN <<baseline, repaired.text>>
        ELSE <<baseline>>

(***************************************************************************)
(* The border classifier (lines 213-258).                                  *)
(***************************************************************************)
\* The counters of the loop of is_mostly_borderish over trimmed: control
\* characters are skipped (they neither count nor end a run of border glyphs),
\* so the counters are those of the text without them.
BorderStats(t) ==
    LET p    == SelectSeq(t, LAMBDA c : ~IsControl(c))
        runs == {k \in 1..Len(p) :
                   \E i \in 1..(Len(p) - k + 1) :
                      \A j \in i..(i + k - 1) : IsBorderish(p[j])}
    IN  [borderish |-> Cardinality({i \in 1..Len(p) : IsBorderish(p[i])}),
         alnum     |-> Cardinality({i \in 1..Len(p) : IsAlphanumeric(p[i])}),
         printable |-> Len(p),
         longest   |-> IF runs = {} THEN 0
                       ELSE CHOOSE k \in runs : \A m \in runs : m <= k]

is_mostly_borderish(line) ==
    LET trimmed == Trim(line) IN
    IF trimmed = <<>> THEN FALSE
    ELSE
      LET st == BorderStats(trimmed)
          border_ratio_high  == st.borderish * 4 >= st.printable * 3
          starts_with_border == IsBorderish(trimmed[1])
          ends_with_border   == IsBorderish(trimmed[Len(trimmed)])
          border_frames_text ==
              starts_with_border /\ ends_with_border /\ st.borderish > st.alnum
          border_dominates ==
              starts_with_border /\ ends_with_border
              /\ st.borderish * 2 >= st.printable
          strong_border_run ==
              starts_with_border /\ ends_with_border /\ st.longest >= 3
              /\ st.borderish * 2 > st.printable
      IN  IF st.printable = 0 THEN FALSE
          ELSE border_ratio_high \/ border_frames_text
               \/ border_dominates \/ strong_border_run

(***************************************************************************)
(* The regular expressions (lines 9-34), run on one line (no '\n' in it).  *)
(***************************************************************************)
\* RE_BORDER_LINE  ^[\s╭╮╰╯─═━┌┐└┘]+$
BorderLineClass(c) ==
    IsWhitespace(c)
    \/ c \in {ArcDR, ArcDL, ArcUR, ArcUL, BoxH, BoxHDouble, BoxHHeavy,
              BoxDR, BoxDL, BoxUR, BoxUL}

RE_BORDER_LINE(line) ==
    line # <<>> /\ \A i \in 1..Len(line) : BorderLineClass(line[i])

\* RE_TITLED_BORDER  ^[\s╭┌╰└] .*? [─═━]{3,} .*? [╮┐╯┘]\s*$
IsHBar(c) == c \in {BoxH, BoxHDouble, BoxHHeavy}

RE_TITLED_BORDER(line) ==
    /\ line # <<>>
    /\ IsWhitespace(line[1]) \/ line[1] \in {ArcDR, BoxDR, ArcUR, BoxUR}
    /\ \E i \in 2..Len(line) : \E j \in (i + 3)..Len(line) :
          /\ IsHBar(line[i]) /\ IsHBar(line[i + 1]) /\ IsHBar(line[i + 2])
          /\ line[j] \in {ArcDL, BoxDL, ArcUL, BoxUL}
          /\ \A k \in (j + 1)..Len(line) : IsWhitespace(line[k])

\* RE_CONTENT_WRAPPER  ^\s*[│║]\x20?(?P<content>.*?)\x20?[│║]?\s*$
\* [some |-> FALSE] when the line does not match; otherwise the capture: after
\* the leading whitespace, the border and one space if there is one, the
\* shortest text that leaves an optional space, an optional border and
\* whitespace up to the end of the line.
IsVBar(c) == c \in {BoxV, BoxVDouble}

WrapperTail(r) ==
    \/ \A k \in 1..Len(r) : IsWhitespace(r[k])
    \/ r # <<>> /\ IsVBar(r[1]) /\ \A k \in 2..Len(r) : IsWhitespace(r[k])
    \/ r # <<>> /\ r[1] = SPACE /\ \A k \in 2..Len(r) : IsWhitespace(r[k])
    \/ Len(r) >= 2 /\ r[1] = SPACE /\ IsVBar(r[2])
       /\ \A k \in 3..Len(r) : IsWhitespace(r[k])

RE_CONTENT_WRAPPER(line) ==
    LET body == TrimStart(line) IN
    IF body = <<>> \/ ~IsVBar(body[1]) THEN [some |-> FALSE, val |-> <<>>]
    ELSE LET afterPad == IF Len(body) >= 2 /\ body[2] = SPACE
                         THEN SubSeq(body, 3, Len(body))
                         ELSE Tail(body)
             n == CHOOSE k \in 0..Len(afterPad) :
                      /\ WrapperTail(SubSeq(afterPad, k + 1, Len(afterPad)))
                      /\ \A m \in 0..(k - 1) :
                            ~WrapperTail(SubSeq(afterPad, m + 1, Len(afterPad)))
         IN  [some |-> TRUE, val |-> SubSeq(afterPad, 1, n)]

\* RE_ANSI  [\x1b\x9b][\[()#;?]*(?:[0-9]{1,4}(?:;[0-9]{0,4})*)?[0-9A-ORZcf-nqry=><]
IsDigit(c) == c \in 48..57

AnsiIntermediate(c) == c \in {91, 40, 41, 35, 59, 63}

AnsiFinal(c) ==
    \/ c \in 48..57
    \/ c \in 65..79
    \/ c \in {82, 90, 99}
    \/ c \in 102..110
    \/ c \in {113, 114, 121, 61, 62, 60}

At(s, i) == IF i \in 1..Len(s) THEN s[i] ELSE -1

Min(a, b) == IF a < b THEN a ELSE b

\* Number of positions from i on at which is holds, at most max; is[j] tells
\* whether the j-th character is of the class looked for.
RunLen(is, i, max) ==
    LET room == Min(max, IF i > Len(is) THEN 0 ELSE Len(is) - i + 1)
    IN  CHOOSE k \in 0..room :
          /\ \A j \in 0..(k - 1) : is[i + j]
          /\ k = room \/ ~is[i + k]

Digits(s) == [j \in 1..Len(s) |-> IsDigit(s[j])]

Intermediates(s) == [j \in 1..Len(s) |-> AnsiIntermediate(s[j])]

\* The positions at which (?:;[0-9]{0,4})* can stop when it starts at p, in the
\* order a greedy backtracking matcher tries them.
RECURSIVE AnsiGroups(_, _)
RECURSIVE AnsiGroupsFrom(_, _, _)
AnsiGroups(s, p) ==
    IF At(s, p) = SEMICOLON
    THEN AnsiGroupsFrom(s, p + 1, RunLen(Digits(s), p + 1, 4)) \o <<p>>
    ELSE <<p>>
AnsiGroupsFrom(s, q, d) ==
    AnsiGroups(s, q + d) \o (IF d = 0 THEN <<>> ELSE AnsiGroupsFrom(s, q, d - 1))

\* [0-9]{1,4} taking d digits at p, then the groups; d counts down to 1.
RECURSIVE AnsiParams(_, _, _)
AnsiParams(s, p, d) ==
    IF d = 0 THEN <<>>
    ELSE AnsiGroups(s, p + d) \o AnsiParams(s, p, d - 1)

\* After k intermediates (k counts down to 0): the parameter list if it
\* matches, then without it.
RECURSIVE AnsiAfterIntro(_, _, _)
AnsiAfterIntro(s, i, k) ==
    LET p    == i + 1 + k
        here == AnsiParams(s, p, RunLen(Digits(s), p, 4)) \o <<p>>
    IN  IF k = 0 THEN here ELSE here \o AnsiAfterIntro(s, i, k - 1)

\* The end (exclusive) of the match of RE_ANSI that starts at i, 0 if none: the
\* first position, in the matcher's order, that holds a final character.
AnsiMatchEnd(s, i) ==
    IF At(s, i) \notin {ESC, CSI} THEN 0
    ELSE LET cands == AnsiAfterIntro(s, i, RunLen(Intermediates(s), i + 1, Len(s)))
             hits  == {n \in 1..Len(cands) : AnsiFinal(At(s, cands[n]))}
         IN  IF hits = {} THEN 0
             ELSE cands[CHOOSE n \in hits : \A m \in hits : n <= m] + 1

\* RE_ANSI.replace_all(text, ""): the matches, leftmost first, removed.
RECURSIVE StripAnsiFrom(_, _)
StripAnsiFrom(s, i) ==
    IF i > Len(s) THEN <<>>
    ELSE LET e == AnsiMatchEnd(s, i)
         IN  IF e = 0 THEN <<s[i]>> \o StripAnsiFrom(s, i + 1)
             ELSE StripAnsiFrom(s, e)

StripAnsi(s) ==
    IF \E i \in 1..Len(s) : s[i] \in {ESC, CSI} THEN StripAnsiFrom(s, 1) ELSE s

(***************************************************************************)
(* The line unwrapper and the inline scrubber (lines 260-345).             *)
(***************************************************************************)
\* The scan of unwrap_wrapped_line from the right: border glyphs first, then
\* whitespace, never below left. is[j] tells whether chars[j] is of the class
\* the loop steps over.
ScanRight(is, left, right) ==
    CHOOSE r \in left..right :
      /\ \A j \in (r + 1)..right : is[j]
      /\ r = left \/ ~is[r]

Borders(chars) == [j \in 1..Len(chars) |-> IsBorderish(chars[j])]

Whitespaces(chars) == [j \in 1..Len(chars) |-> IsWhitespace(chars[j])]

\* unwrap_wrapped_line: [some |-> FALSE] is None. left and right are the
\* source's indices (left chars consumed, right the exclusive end).
unwrap_wrapped_line(line) ==
    LET chars == TrimStartMatches(line, BOM)
        len   == Len(chars)
    IN
    IF chars = <<>> THEN [some |-> TRUE, val |-> <<>>]
    ELSE
      LET run == RunLen(Borders(chars), 1, len) IN
      IF run = 0 THEN [some |-> FALSE, val |-> <<>>]
      ELSE
        LET left  == IF run < len /\ chars[run + 1] = SPACE THEN run + 1 ELSE run
            r1    == ScanRight(Borders(chars), left, len)
            right == ScanRight(Whitespaces(chars), left, r1)
        IN  IF right <= left THEN [some |-> TRUE, val |-> <<>>]
            ELSE [some |-> TRUE, val |-> SubSeq(chars, left + 1, right)]

EndsWithSpace(r) == r # <<>> /\ r[Len(r)] = SPACE

\* The loop of scrub_inline_borderish over text[i..].
RECURSIVE ScrubFrom(_, _, _, _)
ScrubFrom(text, i, result, in_border) ==
    IF i > Len(text) THEN result
    ELSE LET ch == text[i] IN
         IF IsBorderish(ch)
         THEN ScrubFrom(text, i + 1,
                IF ~in_border /\ result # <<>> /\ ~EndsWithSpace(result)
                THEN Append(result, SPACE) ELSE result,
                TRUE)
         ELSE ScrubFrom(text, i + 1,
                Append(IF in_border /\ result # <<>> /\ ~EndsWithSpace(result)
                          /\ ~IsWhitespace(ch)
                       THEN Append(result, SPACE) ELSE result, ch),
                FALSE)

\* A scrub_inline_borderish that only trims the end of the line.
scrub_inline_borderish_keeping_glyphs(text) == TrimEnd(text)

scrub_inline_borderish(text) == TrimEnd(ScrubFrom(text, 1, <<>>, FALSE))

(***************************************************************************)
(* The line assembler (lines 347-419). st = [output, first,                *)
(* consecutive_empty] are the three locals of strip_tui_lines.             *)
(***************************************************************************)
\* A push_content_line that never suppresses a blank line.
push_content_line_keeping_blanks(st, content) ==
    LET trimmed == TrimEnd(content)
        blank   == Trim(trimmed) = <<>>
    IN  [output |-> (IF st.first THEN st.output ELSE Append(st.output, LF))
                     \o trimmed,
         first |-> FALSE,
         consecutive_empty |-> IF blank THEN st.consecutive_empty + 1 ELSE 0]

push_content_line(st, content) ==
    LET trimmed == TrimEnd(content)
        blank   == Trim(trimmed) = <<>>
        ce      == IF blank THEN st.consecutive_empty + 1 ELSE 0
    IN  IF blank /\ ce > 2
        THEN [st EXCEPT !.consecutive_empty = ce]
        ELSE [output |-> (IF st.first THEN st.output ELSE Append(st.output, LF))
                          \o trimmed,
              first |-> FALSE,
              consecutive_empty |-> ce]

\* One iteration of the loop of strip_tui_lines.
StripLine(st, line) ==
    IF is_mostly_borderish(line) \/ RE_BORDER_LINE(line) \/ RE_TITLED_BORDER(line)
    THEN st
    ELSE LET unwrapped == unwrap_wrapped_line(line) IN
         IF unwrapped.some
         THEN push_content_line(st, scrub_inline_borderish(unwrapped.val))
         ELSE LET caps == RE_CONTENT_WRAPPER(line) IN
              IF caps.some
              THEN push_content_line(st, scrub_inline_borderish(caps.val))
              ELSE push_content_line(st, scrub_inline_borderish(line))

RECURSIVE StripLines(_, _, _)
StripLines(lines, i, st) ==
    IF i > Len(lines) THEN st
    ELSE StripLines(lines, i + 1, StripLine(st, lines[i]))

strip_tui_lines(input) ==
    TrimEnd(StripLines(Lines(input), 1,
              [output |-> <<>>, first |-> TRUE, consecutive_empty |-> 0]).output)

(***************************************************************************)
(* The scorer and the orchestrator (lines 302-321, 688-707).               *)
(***************************************************************************)
CharScore(ch) ==
    IF ch = REPLACEMENT THEN -10
    ELSE IF IsBorderish(ch) THEN -2
    ELSE IF IsAlphanumeric(ch) THEN 4
    ELSE IF IsAsciiPunctuation(ch) THEN 2
    ELSE IF IsWhitespace(ch) THEN 1
    ELSE -1

RECURSIVE score_candidate(_)
score_candidate(text) ==
    IF text = <<>> THEN 0 ELSE CharScore(text[1]) + score_candidate(Tail(text))

\* The cleaned text of one variant: the two passes of clean_text's loop body.
CleanVariant(variant) == strip_tui_lines(StripAnsi(variant))

\* The loop of clean_text. best_score starts at i64::MIN, below every score,
\* so the first variant is always taken: acc.set = FALSE stands for that start.
\* A loop of clean_text that takes a later variant on an equal score too.
RECURSIVE BestOf_preferring_later(_, _, _)
BestOf_preferring_later(variants, i, acc) ==
    IF i > Len(variants) THEN acc
    ELSE LET cleaned == CleanVariant(variants[i])
             score   == score_candidate(cleaned)
         IN  BestOf_preferring_later(variants, i + 1,
               IF ~acc.set \/ score >= acc.best_score
               THEN [set |-> TRUE, best_score |-> score, best |-> cleaned]
               ELSE acc)

RECURSIVE BestOf(_, _, _)
BestOf(variants, i, acc) ==
    IF i > Len(variants) THEN acc
    ELSE LET cleaned == CleanVariant(variants[i])
             score   == score_candidate(cleaned)
         IN  BestOf(variants, i + 1,
               IF ~acc.set \/ score > acc.best_score
               THEN [set |-> TRUE, best_score |-> score, best |-> cleaned]
               ELSE acc)

clean_text(input) ==
    TrimEnd(BestOf(normalize_variants(input), 1,
              [set |-> FALSE, best_score |-> 0, best |-> <<>>]).best)

(***************************************************************************)
(* ClipboardTransaction (lines 421-544): validate, as a function of the    *)
(* two fields. NoText stands for None and for a field not yet set.         *)
(***************************************************************************)
NoText == <<-1>>

\* A get_clipboard that returned Err.
ReadErr == <<-2>>

\* A validate that treats the >90% reduction as a failure, not a warning.
validate_rejecting_reduction(orig, modif) ==
    IF modif = NoText
    THEN [err |-> "No modified content to validate", warn |-> FALSE]
    ELSE IF Contains(modif, REPLACEMENT)
    THEN [err |-> "Unicode replacement character (U+FFFD) detected", warn |-> FALSE]
    ELSE IF ByteLen(Trim(orig)) > 10 /\ Trim(modif) = <<>>
    THEN [err |-> "Cleaning removed all content (likely false positive)",
          warn |-> FALSE]
    ELSE IF ByteLen(orig) > 200 /\ ByteLen(modif) < ByteLen(orig) \div 10
    THEN [err |-> "Cleaning reduced content by >90%", warn |-> FALSE]
    ELSE [err |-> "", warn |-> FALSE]

\* A validate without the test of lines 459-466 for a cleaning that removed
\* all content.
validate_allowing_erasure(orig, modif) ==
    IF modif = NoText
    THEN [err |-> "No modified content to validate", warn |-> FALSE]
    ELSE IF Contains(modif, REPLACEMENT)
    THEN [err |-> "Unicode replacement character (U+FFFD) detected", warn |-> FALSE]
    ELSE [err |-> "",
          warn |-> ByteLen(orig) > 200 /\ ByteLen(modif) < ByteLen(orig) \div 10]

\* validate: err is "" for Ok(()); warn is the >90% reduction warning, which
\* is printed and does not fail.
validate(orig, modif) ==
    IF modif = NoText
    THEN [err |-> "No modified content to validate", warn |-> FALSE]
    ELSE IF Contains(modif, REPLACEMENT)
    THEN [err |-> "Unicode replacement character (U+FFFD) detected", warn |-> FALSE]
    ELSE LET original_has_content == ByteLen(Trim(orig)) > 10
             cleaned_is_empty     == Trim(modif) = <<>>
         IN  IF original_has_content /\ cleaned_is_empty
             THEN [err |-> "Cleaning removed all content (likely false positive)",
                   warn |-> FALSE]
             ELSE [err |-> "",
                   warn |-> ByteLen(orig) > 200
                            /\ ByteLen(modif) < ByteLen(orig) \div 10]

(***************************************************************************)
(* The system clipboard behind get_clipboard and set_clipboard (lines      *)
(* 553-685). backend is the path is_wsl and the presence of powershell.exe *)
(* select: "powershell" (WSL with interop) or "native" (arboard, also the  *)
(* fallback when powershell.exe is not found).                             *)
(***************************************************************************)
\* text.replace("\r\n", "\n")
ReplaceCrlf(s) ==
    LET cr(i) == s[i] = CR /\ i < Len(s) /\ s[i + 1] = LF
        keep  == {i \in 1..Len(s) : ~cr(i)}
        nth(k) == CHOOSE i \in keep : Cardinality({j \in keep : j <= i}) = k
    IN  [k \in 1..Cardinality(keep) |-> s[nth(k)]]

\* What a successful get_clipboard returns for clipboard content clip: the
\* PowerShell path normalises line endings and trims the end (lines 575-581).
ReadView(be, clip) ==
    IF be = "powershell" THEN TrimEnd(ReplaceCrlf(clip)) ELSE clip

\* The clipboard after a successful set_clipboard(data): the PowerShell
\* script sets nothing when its input is blank (line 619), and exits 0.
StoredBy(be, clip, data) ==
    IF be = "powershell" /\ data = <<>> THEN clip ELSE data

(***************************************************************************)
(* Texts the clipboard holds when a run starts, and texts another          *)
(* application may put there while the run is in progress.                 *)
(***************************************************************************)
BigRun == 67
MaxExternal == 1

Rep(c, n) == [i \in 1..n |-> c]

TxtEmpty       == <<>>
TxtBlank       == <<SPACE, LF>>
TxtPlain       == <<97, 98>>                              \* "ab"
TxtPlainTrail  == <<97, 98, SPACE>>                       \* "ab "
TxtCrlf        == <<97, 98, CR, LF, 99>>                  \* "ab\r\nc"
TxtFramed      == <<BoxV, SPACE, 97, 98, SPACE, BoxV>>    \* "│ ab │"
TxtFramedFffd  == <<BoxV, SPACE, 97, 98, REPLACEMENT, SPACE, BoxV>>
TxtBorderShort == Rep(BoxH, 3)                            \* 9 bytes
TxtBorderLong  == Rep(BoxH, 4)                            \* 12 bytes
TxtBig         == Rep(BoxH, BigRun) \o <<LF, 97, 98>>     \* more than 200 bytes
TxtOther       == <<122, 122>>                            \* "zz"

Snapshots ==
    {TxtEmpty, TxtBlank, TxtPlain, TxtPlainTrail, TxtCrlf, TxtFramed,
     TxtFramedFffd, TxtBorderShort, TxtBorderLong, TxtBig}

ExternalTexts == {TxtOther, TxtPlain, TxtFramed}

Backends == {"native", "powershell"}

VARIABLES
    backend,       \* the clipboard path of this host
    clipboard,     \* the content of the system clipboard
    ext,           \* changes other applications have made to the clipboard
    entry,         \* "main": a run of the program
    pc,            \* where the run is
    original,      \* ClipboardTransaction.original
    modified,      \* ClipboardTransaction.modified
    cleaned_text,  \* main's local
    validated,     \* "none", "Ok" or "Err": what validate returned
    readback,      \* commit's read-back: a text, ReadErr, or NoText before it
    result,        \* "none", "Ok" or the error commit returned
    writes,        \* the set_clipboard calls issued, in order
    stdout,        \* success indicators printed
    stderr,        \* diagnostics printed, in order
    exit_code,     \* -1 while running, then the exit status
    input,         \* the argument of a function called on its own
    output         \* what that call returned

vars == <<backend, clipboard, ext, entry, pc, original, modified, cleaned_text,
          validated, readback, result, writes, stdout, stderr, exit_code,
          input, output>>

env  == <<backend, entry, input, output>>
tx   == <<original, modified>>
outs == <<stdout, stderr, exit_code>>

\* A run about to start, the clipboard holding one of texts.
Start(texts) ==
    /\ backend \in Backends
    /\ clipboard \in texts
    /\ ext = 0
    /\ entry = "main"
    /\ pc = "new"
    /\ original = NoText
    /\ modified = NoText
    /\ cleaned_text = NoText
    /\ validated = "none"
    /\ readback = NoText
    /\ result = "none"
    /\ writes = <<>>
    /\ stdout = 0
    /\ stderr = <<>>
    /\ exit_code = -1
    /\ input = NoText
    /\ output = NoText

Init == Start(Snapshots)

\* The clipboard is shared with every other application (it is not locked
\* between the calls of lines 494, 511 and 528).
ExternalChange ==
    /\ pc # "done"
    /\ ext < MaxExternal
    /\ \E t \in ExternalTexts : t # clipboard /\ clipboard' = t
    /\ ext' = ext + 1
    /\ UNCHANGED <<env, pc, tx, cleaned_text, validated, readback, result, writes, outs>>

(***************************************************************************)
(* main (lines 810-858).                                                   *)
(***************************************************************************)
\* ClipboardTransaction::new, get_clipboard succeeds (lines 429-435, 812-813)
SnapshotOk ==
    /\ pc = "new"
    /\ original' = ReadView(backend, clipboard)
    /\ pc' = "snapshot"
    /\ UNCHANGED <<env, clipboard, ext, modified, cleaned_text, validated, readback,
                   result, writes, outs>>

\* ClipboardTransaction::new fails (lines 814-818)
SnapshotErr ==
    /\ pc = "new"
    /\ stderr' = Append(stderr, "Error reading clipboard")
    /\ exit_code' = 0
    /\ pc' = "done"
    /\ UNCHANGED <<env, clipboard, ext, tx, cleaned_text, validated, readback,
                   result, writes, stdout>>

\* lines 821-826
MainEmpty ==
    /\ pc = "snapshot"
    /\ Trim(original) = <<>>
    /\ exit_code' = 0
    /\ pc' = "done"
    /\ UNCHANGED <<env, clipboard, ext, tx, cleaned_text, validated, readback,
                   result, writes, stdout, stderr>>

\* line 829
MainClean ==
    /\ pc = "snapshot"
    /\ Trim(original) # <<>>
    /\ cleaned_text' = clean_text(original)
    /\ pc' = "cleaned"
    /\ UNCHANGED <<env, clipboard, ext, tx, validated, readback, result, writes, outs>>

\* lines 831-834
MainNoChange ==
    /\ pc = "cleaned"
    /\ cleaned_text = original
    /\ exit_code' = 0
    /\ pc' = "done"
    /\ UNCHANGED <<env, clipboard, ext, tx, cleaned_text, validated, readback,
                   result, writes, stdout, stderr>>

\* line 836 and set_modified (lines 443-445)
MainSetModified ==
    /\ pc = "cleaned"
    /\ cleaned_text # original
    /\ modified' = cleaned_text
    /\ pc' = "validate"
    /\ UNCHANGED <<env, clipboard, ext, original, cleaned_text, validated, readback,
                   result, writes, outs>>

\* The call of validate (lines 448-480, 839), its warning printed.
Validate ==
    /\ pc = "validate"
    /\ LET v == validate(original, modified) IN
         /\ validated' = IF v.err = "" THEN "Ok" ELSE "Err"
         /\ stderr' = IF v.warn
                      THEN stderr \o <<"Warning: Cleaning reduced content by >90%",
                                       "This might indicate over-aggressive cleaning.">>
                      ELSE stderr
    /\ pc' = "validated"
    /\ UNCHANGED <<env, clipboard, ext, tx, cleaned_text, readback, result, writes,
                   stdout, exit_code>>

\* A failed validation that clears the candidate it rejected.
MainValidateFailed_clearing_modified ==
    /\ entry = "main"
    /\ pc = "validated"
    /\ validated = "Err"
    /\ modified' = NoText
    /\ stderr' = stderr \o <<"Validation failed", "Aborting operation. Clipboard unchanged.">>
    /\ exit_code' = 0
    /\ pc' = "done"
    /\ UNCHANGED <<env, clipboard, ext, original, cleaned_text, validated, readback,
                   result, writes, stdout>>

\* lines 839-843
MainValidateFailed ==
    /\ entry = "main"
    /\ pc = "validated"
    /\ validated = "Err"
    /\ stderr' = stderr \o <<"Validation failed", "Aborting operation. Clipboard unchanged.">>
    /\ exit_code' = 0
    /\ pc' = "done"
    /\ UNCHANGED <<env, clipboard, ext, tx, cleaned_text, validated, readback,
                   result, writes, stdout>>

(***************************************************************************)
(* commit (lines 483-543), one action per call on the clipboard.           *)
(***************************************************************************)
\* A commit that main enters whatever validate returned.
CommitBegin_unvalidated ==
    /\ pc = "validated"
    /\ IF modified = NoText
       THEN result' = "No modified content to commit" /\ pc' = "returned"
       ELSE IF modified = original
            THEN result' = "Ok" /\ pc' = "returned"
            ELSE result' = result /\ pc' = "write"
    /\ UNCHANGED <<env, clipboard, ext, tx, cleaned_text, validated, readback, writes, outs>>

\* A commit without the test of line 489: it writes identical content too.
CommitBegin_always_writing ==
    /\ pc = "validated"
    /\ validated = "Ok"
    /\ IF modified = NoText
       THEN result' = "No modified content to commit" /\ pc' = "returned"
       ELSE result' = result /\ pc' = "write"
    /\ UNCHANGED <<env, clipboard, ext, tx, cleaned_text, validated, readback, writes, outs>>

\* lines 484-491: nothing to commit, or nothing to write
CommitBegin ==
    /\ pc = "validated"
    /\ validated = "Ok"
    /\ IF modified = NoText
       THEN result' = "No modified content to commit" /\ pc' = "returned"
       ELSE IF modified = original
            THEN result' = "Ok" /\ pc' = "returned"
            ELSE result' = result /\ pc' = "write"
    /\ UNCHANGED <<env, clipboard, ext, tx, cleaned_text, validated, readback, writes, outs>>

\* line 494: set_clipboard(&modified)
CommitWrite ==
    /\ pc = "write"
    /\ \/ /\ clipboard' = StoredBy(backend, clipboard, modified)
          /\ writes' = Append(writes, [data |-> modified, ok |-> TRUE,
                                       stored |-> clipboard' = modified])
          /\ pc' = "verify"
          /\ stderr' = stderr
       \/ /\ clipboard' \in {clipboard, <<>>}
          /\ writes' = Append(writes, [data |-> modified, ok |-> FALSE,
                                       stored |-> FALSE])
          /\ stderr' = Append(stderr, "Write failed. Attempting rollback...")
          /\ pc' = "rollback_write"
    /\ UNCHANGED <<env, ext, tx, cleaned_text, validated, readback, result, stdout, exit_code>>

\* A restore after a failed write whose own failure is reported as the abort.
RollbackAfterWrite_hiding_failure ==
    /\ pc = "rollback_write"
    /\ \/ /\ clipboard' = StoredBy(backend, clipboard, original)
          /\ writes' = Append(writes, [data |-> original, ok |-> TRUE,
                                       stored |-> clipboard' = original])
          /\ stderr' = Append(stderr,
                         "Rollback successful. Clipboard restored to original state.")
       \/ /\ clipboard' \in {clipboard, <<>>}
          /\ writes' = Append(writes, [data |-> original, ok |-> FALSE,
                                       stored |-> FALSE])
          /\ stderr' = stderr \o <<"CRITICAL: Rollback failed",
                                   "Original clipboard content may be lost!">>
    /\ result' = "Transaction aborted: write failed"
    /\ pc' = "returned"
    /\ UNCHANGED <<env, ext, tx, cleaned_text, validated, readback, stdout, exit_code>>

\* lines 497-507: the restore after a failed write
RollbackAfterWrite ==
    /\ pc = "rollback_write"
    /\ \/ /\ clipboard' = StoredBy(backend, clipboard, original)
          /\ writes' = Append(writes, [data |-> original, ok |-> TRUE,
                                       stored |-> clipboard' = original])
          /\ stderr' = Append(stderr,
                         "Rollback successful. Clipboard restored to original state.")
          /\ result' = "Transaction aborted: write failed"
       \/ /\ clipboard' \in {clipboard, <<>>}
          /\ writes' = Append(writes, [data |-> original, ok |-> FALSE,
                                       stored |-> FALSE])
          /\ stderr' = stderr \o <<"CRITICAL: Rollback failed",
                                   "Original clipboard content may be lost!">>
          /\ result' = "Write failed and rollback failed"
    /\ pc' = "returned"
    /\ UNCHANGED <<env, ext, tx, cleaned_text, validated, readback, stdout, exit_code>>

\* A read-back that treats a failed read as a failed verification.
CommitVerify_rolling_back_on_read_error ==
    /\ pc = "verify"
    /\ \/ /\ readback' = ReadView(backend, clipboard)
          /\ TrimEnd(readback') = TrimEnd(modified)
          /\ result' = "Ok"
          /\ stderr' = stderr
          /\ pc' = "returned"
       \/ /\ readback' \in {ReadView(backend, clipboard), ReadErr}
          /\ readback' = ReadErr \/ TrimEnd(readback') # TrimEnd(modified)
          /\ result' = result
          /\ stderr' = stderr \o <<"Verification failed", "Expected bytes, got bytes",
                                   "Attempting rollback...">>
          /\ pc' = "rollback_verify"
    /\ UNCHANGED <<env, clipboard, ext, tx, cleaned_text, validated, writes,
                   stdout, exit_code>>

\* lines 511-540: the read-back, both sides compared after trim_end
CommitVerify ==
    /\ pc = "verify"
    /\ \/ /\ readback' = ReadView(backend, clipboard)
          /\ TrimEnd(readback') = TrimEnd(modified)
          /\ result' = "Ok"
          /\ stderr' = stderr
          /\ pc' = "returned"
       \/ /\ readback' = ReadView(backend, clipboard)
          /\ TrimEnd(readback') # TrimEnd(modified)
          /\ result' = result
          /\ stderr' = stderr \o <<"Verification failed", "Expected bytes, got bytes",
                                   "Attempting rollback...">>
          /\ pc' = "rollback_verify"
       \/ /\ readback' = ReadErr
          /\ result' = "Ok"
          /\ stderr' = stderr \o <<"Warning: Could not verify write",
                                   "Clipboard may have been updated, but verification failed.">>
          /\ pc' = "returned"
    /\ UNCHANGED <<env, clipboard, ext, tx, cleaned_text, validated, writes,
                   stdout, exit_code>>

\* A failed verification that reports the abort without restoring original.
RollbackAfterVerify_not_restoring ==
    /\ pc = "rollback_verify"
    /\ result' = "Transaction aborted: Verification failed"
    /\ pc' = "returned"
    /\ UNCHANGED <<env, clipboard, ext, tx, cleaned_text, validated, readback, writes,
                   outs>>

\* lines 528-533: the restore after a failed verification
RollbackAfterVerify ==
    /\ pc = "rollback_verify"
    /\ \/ /\ clipboard' = StoredBy(backend, clipboard, original)
          /\ writes' = Append(writes, [data |-> original, ok |-> TRUE,
                                       stored |-> clipboard' = original])
          /\ stderr' = Append(stderr, "Rollback successful.")
          /\ result' = "Transaction aborted: Verification failed"
       \/ /\ clipboard' \in {clipboard, <<>>}
          /\ writes' = Append(writes, [data |-> original, ok |-> FALSE,
                                       stored |-> FALSE])
          /\ stderr' = Append(stderr, "CRITICAL: Rollback failed")
          /\ result' = "Verification and rollback both failed"
    /\ pc' = "returned"
    /\ UNCHANGED <<env, ext, tx, cleaned_text, validated, readback, stdout, exit_code>>

\* A main that turns a failed commit into a failing exit status.
MainReport_failing_exit ==
    /\ entry = "main"
    /\ pc = "returned"
    /\ IF result = "Ok"
       THEN stdout' = stdout + 1 /\ stderr' = stderr /\ exit_code' = 0
       ELSE /\ stdout' = stdout
            /\ stderr' = Append(stderr, "Transaction failed")
            /\ exit_code' = 1
    /\ pc' = "done"
    /\ UNCHANGED <<env, clipboard, ext, tx, cleaned_text, validated, readback,
                   result, writes>>

\* lines 846-857: main's match on what commit returned
MainReport ==
    /\ entry = "main"
    /\ pc = "returned"
    /\ IF result = "Ok"
       THEN stdout' = stdout + 1 /\ stderr' = stderr
       ELSE stdout' = stdout /\ stderr' = Append(stderr, "Transaction failed")
    /\ exit_code' = 0
    /\ pc' = "done"
    /\ UNCHANGED <<env, clipboard, ext, tx, cleaned_text, validated, readback,
                   result, writes>>

Program ==
    \/ SnapshotOk \/ SnapshotErr
    \/ MainEmpty \/ MainClean \/ MainNoChange \/ MainSetModified
    \/ Validate \/ MainValidateFailed
    \/ CommitBegin \/ CommitWrite \/ RollbackAfterWrite
    \/ CommitVerify \/ RollbackAfterVerify
    \/ MainReport

Next == Program \/ ExternalChange

Spec == Init /\ [][Next]_vars

\* main runs to its end: every call on the clipboard returns (section 5 of
\* the specification: a call completes or fails within bounded time), and so
\* does clean_text, which loops over finite data only. Steps is every step
\* of the run but the call of clean_text; MainCleanEnabled is ENABLED
\* MainClean written out, and as MainClean leaves it, a run that is
\* infinitely often outside MainCleanEnabled is one that is weakly fair to
\* MainClean.
Steps ==
    \/ SnapshotOk \/ SnapshotErr
    \/ MainEmpty \/ MainNoChange \/ MainSetModified
    \/ Validate \/ MainValidateFailed
    \/ CommitBegin \/ CommitWrite \/ RollbackAfterWrite
    \/ CommitVerify \/ RollbackAfterVerify
    \/ MainReport

MainCleanEnabled == pc = "snapshot" /\ Trim(original) # <<>>

SpecFair == Spec /\ WF_vars(Steps) /\ []<>~MainCleanEnabled

(***************************************************************************)
(* The transaction used directly: validate and commit applied to drawn     *)
(* pairs (original, modified), the clipboard holding original.             *)
(***************************************************************************)
DirectOriginals == {TxtPlain, TxtFramed, TxtBorderShort, TxtBorderLong, TxtBig}

DirectCandidates ==
    {TxtEmpty, <<SPACE>>, TxtPlain, <<97, 98, REPLACEMENT>>, TxtFramed, TxtOther}

InitDirect ==
    /\ backend \in Backends
    /\ original \in DirectOriginals
    /\ modified \in DirectCandidates
    /\ clipboard = original
    /\ ext = 0
    /\ entry = "direct"
    /\ pc = "validate"
    /\ cleaned_text = NoText
    /\ validated = "none"
    /\ readback = NoText
    /\ result = "none"
    /\ writes = <<>>
    /\ stdout = 0
    /\ stderr = <<>>
    /\ exit_code = -1
    /\ input = NoText
    /\ output = NoText

SpecApi == (Init \/ InitDirect) /\ [][Next]_vars

(***************************************************************************)
(* clean_text on framed lines and on mojibake: runs whose clipboard holds, *)
(* besides the texts above, a framed line "│ content │" or a genuine       *)
(* UTF-8 text of borders and framed lines read through Windows-1252 (what  *)
(* tests::test_recovers_from_cp1252_mojibake builds, lines 778-780).       *)
(***************************************************************************)
Contents ==
    { <<97, 98>>,                     \* "ab"
      <<97, 32, 124, 32, 98>>,        \* "a | b"
      <<97, 98, 63>>,                 \* "ab?"
      <<97>>,                         \* "a"
      <<63>> }                        \* "?"

Framed(content) == <<BoxV, SPACE>> \o content \o <<SPACE, BoxV>>

FramedInputs == {Framed(c) : c \in Contents}

\* Genuine texts: text is the text, content the contents of its framed lines.
GenuineTexts ==
    { [text |-> Framed(TxtPlain), content |-> {TxtPlain}],
      [text |-> <<BoxVDouble, SPACE>> \o TxtPlain \o <<SPACE, BoxVDouble>>,
       content |-> {TxtPlain}],
      [text |-> <<BoxVHeavy, SPACE>> \o TxtPlain \o <<SPACE, BoxVHeavy>>,
       content |-> {TxtPlain}],
      [text |-> Rep(BoxH, 3) \o <<LF>> \o Framed(TxtPlain) \o <<LF>> \o Rep(BoxH, 3),
       content |-> {TxtPlain}],
      \* "╭─── ttt ───╮" over "│ ab │" over "│ zz │"
      [text |-> <<ArcDR>> \o Rep(BoxH, 3) \o <<SPACE, 116, 116, 116, SPACE>>
                \o Rep(BoxH, 3) \o <<ArcDL, LF>> \o Framed(TxtPlain)
                \o <<LF>> \o Framed(TxtOther),
       content |-> {TxtPlain, TxtOther}] }

\* decode_windows_1252(original.as_bytes()), line 780
Mojibake(t) == decode_windows_1252(AsBytes(t))

MojibakeInputs == {Mojibake(g.text) : g \in GenuineTexts}

InitClean == Start(Snapshots \cup FramedInputs \cup MojibakeInputs)

SpecClean == InitClean /\ [][Next]_vars

(***************************************************************************)
(* Functions called on their own, the way the tests of lines 709-808 call  *)
(* clean_text and decode_windows_1252: input is the argument, output what  *)
(* the call returned.                                                      *)
(***************************************************************************)
MaxLines == 5
MaxChars == 4

run == <<backend, clipboard, ext, entry, tx, cleaned_text, validated, readback,
         result, writes, outs>>

\* No run of main: a call at, on one of args.
InitCall(args, at) ==
    /\ backend = "native"
    /\ clipboard = <<>>
    /\ ext = 0
    /\ entry = "direct"
    /\ pc = at
    /\ original = NoText
    /\ modified = NoText
    /\ cleaned_text = NoText
    /\ validated = "none"
    /\ readback = NoText
    /\ result = "none"
    /\ writes = <<>>
    /\ stdout = 0
    /\ stderr = <<>>
    /\ exit_code = -1
    /\ input \in args
    /\ output = NoText

\* Every text of at most n characters of alphabet.
TextsOver(alphabet, n) == UNION {[1..k -> alphabet] : k \in 0..n}

\* Lines as clean_text meets them: empty, blank, plain, framed, with a border
\* glyph inside, and a border.
LineKinds ==
    { <<>>, <<SPACE>>, TxtPlain, TxtFramed,
      <<97, SPACE, BoxV, SPACE, 98>>,         \* "a │ b"
      TxtBorderShort }

RECURSIVE JoinLines(_)
JoinLines(ls) ==
    IF ls = <<>> THEN <<>>
    ELSE IF Len(ls) = 1 THEN ls[1]
    ELSE ls[1] \o <<LF>> \o JoinLines(Tail(ls))

LineTexts == {JoinLines(ls) : ls \in TextsOver(LineKinds, MaxLines)}

\* Characters without a border glyph or an escape among them: a letter, a
\* space, a line feed, the byte order mark, and U+00C4, U+20AC, U+00A0, which
\* Windows-1252 encodes to the bytes C4, 80, A0.
PlainChars == {97, SPACE, LF, BOM, 196, 8364, 160}

CharTexts == TextsOver(PlainChars, MaxChars)

InitText == InitCall(LineTexts \cup CharTexts, "clean_text")

\* clean_text(input), lines 688-707
CallCleanText ==
    /\ pc = "clean_text"
    /\ output' = clean_text(input)
    /\ pc' = "cleaned_once"
    /\ UNCHANGED <<run, input>>

\* clean_text on what clean_text returned
CallCleanTextAgain ==
    /\ pc = "cleaned_once"
    /\ output' = clean_text(output)
    /\ pc' = "cleaned_twice"
    /\ UNCHANGED <<run, input>>

NextText == CallCleanText \/ CallCleanTextAgain

SpecText == InitText /\ [][NextText]_vars

\* Characters for the codepage functions: a letter, U+00E9 (its own byte),
\* U+0080 and U+0081 (the range of line 113), U+20AC (an arm of the match,
\* byte 0x80) and U+0100 (no byte).
CodepageChars == {97, 233, 128, 129, 8364, 256}

InitCodepage == InitCall(TextsOver(CodepageChars, MaxChars), "encode")

\* encode_windows_1252(input): output is the bytes of Some, and None ends
\* the call as recover_from_cp1252_mojibake's `?` does (line 149).
CallEncode ==
    /\ pc = "encode"
    /\ LET encoded == encode_windows_1252(input)
       IN  IF encoded.ok
           THEN output' = encoded.bytes /\ pc' = "encoded"
           ELSE output' = NoText /\ pc' = "discarded"
    /\ UNCHANGED <<run, input>>

\* decode_windows_1252 of the bytes encode_windows_1252 returned.
CallDecode ==
    /\ pc = "encoded"
    /\ output' = decode_windows_1252(output)
    /\ pc' = "decoded"
    /\ UNCHANGED <<run, input>>

NextCodepage == CallEncode \/ CallDecode

SpecCodepage == InitCodepage /\ [][NextCodepage]_vars

(***************************************************************************)
(* Properties.                                                             *)
(***************************************************************************)
Returned == pc \in {"returned", "done"}

\* The read-back succeeded and differs from modified after trim_end.
Mismatch ==
    /\ readback # NoText
    /\ readback # ReadErr
    /\ TrimEnd(readback) # TrimEnd(modified)

AbortedWrite   == "Transaction aborted: write failed"
AbortedVerify  == "Transaction aborted: Verification failed"
CriticalWrite  == "Write failed and rollback failed"
CriticalVerify == "Verification and rollback both failed"

Range(seq) == {seq[i] : i \in 1..Len(seq)}

\* C1: when the write of modified succeeds and the read-back differs from
\* modified (both trimmed at the end), commit issues exactly one more write,
\* of original; when that write succeeds the clipboard holds original as the
\* write returns, commit returns the verification abort, and no success
\* indicator is printed.
MismatchRestoresState ==
    (Returned /\ Mismatch) =>
        /\ Len(writes) = 2
        /\ writes[1].data = modified /\ writes[1].ok
        /\ writes[2].data = original
        /\ writes[2].ok => (result = AbortedVerify /\ stdout = 0)
        /\ result # "Ok"

MismatchRestoresStep ==
    (pc = "rollback_verify" /\ pc' = "returned") =>
        /\ Mismatch
        /\ Len(writes') = Len(writes) + 1
        /\ writes'[Len(writes')].ok => clipboard' = original

MismatchRestores == []MismatchRestoresState /\ [][MismatchRestoresStep]_vars

MismatchRestoredWitness ==
    pc = "done" /\ Mismatch /\ Len(writes) = 2 /\ writes[2].ok

\* C2: when the write of modified fails, exactly one restore write of original
\* follows; commit returns the write abort when it succeeds and the critical
\* failure when it fails. A critical failure is returned exactly when a failed
\* write or a failed verification is followed by a failed restore, and the
\* CRITICAL diagnostic is printed in exactly those runs.
WriteFailureOutcome ==
    Returned =>
        /\ (writes # <<>> /\ ~writes[1].ok) =>
              /\ Len(writes) = 2
              /\ writes[2].data = original
              /\ result = IF writes[2].ok THEN AbortedWrite ELSE CriticalWrite
        /\ (result \in {CriticalWrite, CriticalVerify}) <=>
              (Len(writes) = 2 /\ ~writes[2].ok /\ (~writes[1].ok \/ Mismatch))
        /\ ("CRITICAL: Rollback failed" \in Range(stderr)) <=>
              (result \in {CriticalWrite, CriticalVerify})

CriticalFailureWitness ==
    pc = "done" /\ result = CriticalWrite /\ ~writes[1].ok /\ ~writes[2].ok

\* C3: no write is issued unless validate returned Ok on this transaction,
\* commit is entered only after that, and a run that ends on a failed
\* snapshot read or a failed validate has issued no write.
ValidateBeforeWrite ==
    /\ writes # <<>> => validated = "Ok"
    /\ pc \in {"write", "verify", "rollback_write", "rollback_verify", "returned"}
          => validated = "Ok"
    /\ (pc = "done" /\ (original = NoText \/ validated = "Err")) => writes = <<>>

ValidationFailedWitness ==
    pc = "done" /\ validated = "Err" /\ writes = <<>> /\ exit_code = 0

\* C4: validate fails exactly when modified contains U+FFFD, or original
\* trimmed is longer than 10 bytes while modified is empty or whitespace; a
\* reduction of more than 90% of an original of more than 200 bytes does not
\* fail it.
ValidateFailsIff ==
    (validated # "none" /\ modified # NoText) =>
        ((validated = "Err") <=>
            \/ Contains(modified, REPLACEMENT)
            \/ ByteLen(Trim(original)) > 10 /\ Trim(modified) = <<>>)

BigReductionPassesWitness ==
    /\ validated = "Ok"
    /\ ByteLen(original) > 200
    /\ ByteLen(modified) * 10 < ByteLen(original)
    /\ "Warning: Cleaning reduced content by >90%" \in Range(stderr)

\* C5: commit returns Ok without writing when modified equals original, and a
\* run whose cleaned text equals the snapshot issues no write.
NoRedundantWrite ==
    /\ (Returned /\ modified # NoText /\ modified = original)
          => (result = "Ok" /\ writes = <<>>)
    /\ (cleaned_text # NoText /\ cleaned_text = original) => writes = <<>>
    /\ (pc = "done" /\ cleaned_text # NoText /\ cleaned_text = original)
          => (modified = NoText /\ stdout = 0)

CommitIdenticalWitness ==
    pc = "returned" /\ modified = original /\ result = "Ok" /\ writes = <<>>

\* C6: every run ends, and ends with exit status 0, whatever failed.
AlwaysExitsZero ==
    /\ [](exit_code \in {-1, 0})
    /\ [](pc = "done" <=> exit_code = 0)
    /\ <>(pc = "done")

FailedRollbackExitWitness ==
    pc = "done" /\ exit_code = 0 /\ result = CriticalVerify

\* C7: the success indicator is printed at most once, and only when the
\* cleaned text differs from the snapshot, commit returned Ok, and a write of
\* the cleaned text put it on the clipboard.
SuccessOnlyWhenChanged ==
    /\ stdout <= 1
    /\ stdout = 1 =>
          /\ cleaned_text # original
          /\ result = "Ok"
          /\ \E i \in 1..Len(writes) :
                writes[i].data = cleaned_text /\ writes[i].ok /\ writes[i].stored

FramedLineYieldsContent ==
    \A c \in Contents :
        (original = Framed(c) /\ cleaned_text # NoText) => cleaned_text = c

\* The characters the box-drawing glyphs of t turn into when their bytes are
\* read through Windows-1252.
BorderFragments(t) ==
    UNION { Range(Mojibake(<<t[i]>>)) : i \in {j \in 1..Len(t) : t[j] \in 9472..9599} }

\* C10: for a snapshot that is a genuine text of borders and framed lines read
\* through Windows-1252, the text clean_text returns contains the content of
\* every framed line and none of the characters the border glyphs were
\* mis-decoded into.
MojibakeRecovered ==
    \A g \in GenuineTexts :
        (original = Mojibake(g.text) /\ cleaned_text # NoText) =>
            /\ \A c \in g.content : ContainsSub(cleaned_text, c)
            /\ Range(cleaned_text) \cap BorderFragments(g.text) = {}

\* The number of blank lines at the head of the sequence of lines ls.
RECURSIVE LeadingBlanks(_)
LeadingBlanks(ls) ==
    IF ls # <<>> /\ Trim(ls[1]) = <<>> THEN 1 + LeadingBlanks(Tail(ls)) ELSE 0

\* The longest run of consecutive blank lines of text t.
MaxBlankRun(t) ==
    LET ls   == Lines(t)
        runs == {LeadingBlanks(SubSeq(ls, i, Len(ls))) : i \in 1..Len(ls)} \cup {0}
    IN  CHOOSE k \in runs : \A m \in runs : m <= k

\* C11: the text clean_text returns never holds more than 2 consecutive blank
\* lines, whatever the input: after two blank lines the next line of the
\* output is not blank.
AtMostTwoBlankLines ==
    output # NoText => MaxBlankRun(output) <= 2

BlankLinesCoalescedWitness ==
    /\ pc = "cleaned_once"
    /\ input = JoinLines(<<TxtPlain, <<>>, <<>>, <<>>, TxtPlain>>)
    /\ output = JoinLines(<<TxtPlain, <<>>, <<>>, TxtPlain>>)

\* A text without a border glyph and without an escape sequence.
NoArtifacts(t) ==
    /\ \A i \in 1..Len(t) : ~IsBorderish(t[i])
    /\ StripAnsi(t) = t

\* C12: for an input without border glyphs and escape sequences, clean_text
\* applied to what clean_text returned returns the same text again.
CleanTextIdempotent ==
    [][(pc = "cleaned_once" /\ pc' = "cleaned_twice" /\ NoArtifacts(input))
          => output' = output]_vars

\* The score of the cleaned text of the i-th variant of text t.
VariantScore(t, i) == score_candidate(CleanVariant(normalize_variants(t)[i]))

\* C13: clean_text returns the cleaned text of the variant whose score is
\* highest, and of the first such variant when scores are equal: the baseline
\* unless the recovered variant scores strictly higher.
HighestScoreFirstWins ==
    pc = "cleaned_once" =>
        \E i \in 1..Len(normalize_variants(input)) :
            /\ \A j \in 1..Len(normalize_variants(input)) :
                  VariantScore(input, j) <= VariantScore(input, i)
            /\ \A j \in 1..(i - 1) : VariantScore(input, j) < VariantScore(input, i)
            /\ output = TrimEnd(CleanVariant(normalize_variants(input)[i]))

\* A tie between two variants that clean to different texts.
TieKeepsBaselineWitness ==
    /\ pc = "cleaned_once"
    /\ Len(normalize_variants(input)) = 2
    /\ VariantScore(input, 1) = VariantScore(input, 2)
    /\ CleanVariant(normalize_variants(input)[1]) # CleanVariant(normalize_variants(input)[2])
    /\ output = CleanVariant(normalize_variants(input)[1])

\* C14: whenever encode_windows_1252(t) succeeds, decode_windows_1252 of the
\* bytes it returned is t.
EncodeDecodeRoundTrip == pc = "decoded" => output = input

\* C15: the text clean_text returns holds no border-ish character, whichever
\* path of strip_tui_lines emitted its lines.
NoBorderishInOutput ==
    pc \in {"cleaned_once", "cleaned_twice"} =>
        \A i \in 1..Len(output) : ~IsBorderish(output[i])

\* A framed line and a line with a border glyph inside, both emitted without
\* their glyphs.
GlyphsScrubbedWitness ==
    /\ pc = "cleaned_once"
    /\ input = JoinLines(<<TxtFramed, <<97, SPACE, BoxV, SPACE, 98>>>>)
    /\ output = JoinLines(<<TxtPlain, <<97, SPACE, SPACE, 98>>>>)

\* A set_clipboard call that returned Ok and left an empty or whitespace-only
\* text on the clipboard.
WroteBlank ==
    \E i \in 1..Len(writes) :
        writes[i].ok /\ writes[i].stored /\ Trim(writes[i].data) = <<>>

\* C16: a run whose snapshot is not blank does not end with commit returning
\* Ok after an empty or whitespace-only text was written to the clipboard.
NonBlankNeverErased ==
    (pc = "done" /\ result = "Ok" /\ original # NoText /\ Trim(original) # <<>>)
        => ~WroteBlank

\* C16 as the code has it: when the trimmed snapshot is longer than 10 bytes,
\* no empty or whitespace-only text is ever written, and a cleaning that
\* removed all content ends the run at validate without a write.
SubstantialNeverErased ==
    (original # NoText /\ ByteLen(Trim(original)) > 10) =>
        /\ \A i \in 1..Len(writes) : Trim(writes[i].data) # <<>>
        /\ (pc = "done" /\ cleaned_text # NoText /\ Trim(cleaned_text) = <<>>) =>
              validated = "Err" /\ writes = <<>> /\ stdout = 0

\* A snapshot of 12 bytes of border cleaned to the empty text and refused.
ErasureRefusedWitness ==
    /\ pc = "done"
    /\ original = TxtBorderLong
    /\ cleaned_text = <<>>
    /\ validated = "Err"
    /\ writes = <<>>

\* C17: when the write of modified succeeded and the read-back itself failed,
\* commit returns Ok with that write as its only set_clipboard call, and main
\* prints the success indicator.
ReadFailureIsSuccess ==
    (Returned /\ readback = ReadErr) =>
        /\ Len(writes) = 1
        /\ writes[1].data = modified /\ writes[1].ok
        /\ result = "Ok"
        /\ pc = "done" => (stdout = 1 /\ exit_code = 0)

ReadFailureWitness ==
    /\ pc = "done"
    /\ readback = ReadErr
    /\ Len(writes) = 1 /\ writes[1].ok
    /\ stdout = 1

====
